---- MODULE Spec2Model ----
(***************************************************************************)
(* FAQ chat-bot server (src/server.js, the TF-IDF + Fuse revision at lines *)
(* 146-370): the /ask and /reload handlers, the corpus loader, the text    *)
(* preprocessing, the WordNet query expansion and the matching logic.      *)
(*                                                                         *)
(* Encoding of JavaScript values:                                          *)
(*  - a string of text is the sequence of its space-separated pieces, so   *)
(*    <<>> is "", <<"", "">> is " " and <<"Reset", "password?">> is        *)
(*    "Reset password?";                                                   *)
(*  - a request's question is [kind, text]: kind "undefined" (no question  *)
(*    field), "falsy" (0, null or false), "string", or "number" (a number  *)
(*    other than 0, standing for every truthy value that is no string);    *)
(*  - an answer is a string, Null standing for JavaScript's null;          *)
(*  - relevance and fuzzy scores are fixed-point thousandths.              *)
(***************************************************************************)
EXTENDS Integers, Sequences, FiniteSets, TLC

(* ------------------------------ bounds --------------------------------- *)

MaxCalls == 3
MaxInFlight == 2
MaxWords == 2

(* ------------------------- program constants --------------------------- *)

FAIL_LIMIT == 3
K == 3
TFIDF_STRONG == 300
TFIDF_WEAK == 200
TFIDF_SCORE_GAP == 80
FUSE_THRESHOLD == 450
FUSE_ACCEPT_THRESHOLD == 300
FUSE_AMBIGUITY == 50

Null == "<null>"

ESCALATION ==
  "Sorry, I wasn't able to answer your question after multiple tries. Call 16221 (toll free) to reach our support team for further detailed help."

(* --------------------------- generic helpers --------------------------- *)

RECURSIVE Flatten(_)
Flatten(ss) == IF ss = <<>> THEN <<>> ELSE Head(ss) \o Flatten(Tail(ss))

RECURSIVE Count(_, _)
Count(x, s) ==
  IF s = <<>> THEN 0 ELSE (IF Head(s) = x THEN 1 ELSE 0) + Count(x, Tail(s))

Contains(s, x) == \E i \in 1..Len(s) : s[i] = x

\* Set.prototype.add on an insertion-ordered Set
SetAdd(s, x) == IF Contains(s, x) THEN s ELSE Append(s, x)

RECURSIVE SetAddAll(_, _)
SetAddAll(s, xs) ==
  IF xs = <<>> THEN s ELSE SetAddAll(SetAdd(s, Head(xs)), Tail(xs))

\* slice(0, n - 1): one entry short
SliceShort(s, n) == SubSeq(s, 1, IF Len(s) < n - 1 THEN Len(s) ELSE n - 1)

\* Array.prototype.slice(0, n)
Slice(s, n) == SubSeq(s, 1, IF Len(s) < n THEN Len(s) ELSE n)

Abs(x) == IF x < 0 THEN -x ELSE x

(* ------------------------ text and the lexicon ------------------------- *)

\* String.prototype.toLowerCase on one piece
Lower(p) == IF p = "Reset" THEN "reset" ELSE p

\* /[^a-z\u0980-\u09FF0-9\s]/g -> " ", then split(/\s+/).filter(Boolean)
CleanAlnum(p) ==
  CASE p = "" -> <<>>
    [] p = "password?" -> <<"password">>
    [] OTHER -> <<p>>

\* /[^a-z\s]/g -> " ", then split(/\s+/).filter(Boolean)
CleanAlpha(p) ==
  CASE p = "" -> <<>>
    [] p = "16221" -> <<>>
    [] p = "password?" -> <<"password">>
    [] OTHER -> <<p>>

\* natural.stopwords.includes(tok)
IsStopword(tok) == tok \in {"my"}

\* /[a-z]/.test(tok)
HasAsciiLetter(tok) == tok \notin {"", "16221"}

\* natural.PorterStemmer.stem(tok)
Stem(tok) ==
  CASE tok = "opening" -> "open"
    [] tok = "hours" -> "hour"
    [] tok = "opning" -> "opn"
    [] tok = "agreed" -> "agre"
    [] tok = "agre" -> "agr"
    [] OTHER -> tok

\* String.prototype.trim() leaves the empty string
IsBlankText(text) == \A i \in 1..Len(text) : text[i] = ""

ProcessToken(tok) ==
  IF HasAsciiLetter(tok)
    THEN (IF IsStopword(tok) THEN <<>> ELSE <<Stem(tok)>>)
    ELSE <<tok>>

\* preprocess(text): the space-joined result, as its token sequence
preprocess(text) ==
  IF text = <<>> THEN <<>>
  ELSE LET tokens == Flatten([i \in 1..Len(text) |-> CleanAlnum(Lower(text[i]))])
       IN  Flatten([i \in 1..Len(tokens) |-> ProcessToken(tokens[i])])

(* ------------------------ WordNet query expansion ---------------------- *)

\* the synonyms of all results wordnet.lookup(word) passes to its callback
Synonyms(word) ==
  CASE word = "watchword" -> <<"watchword", "password">>
    [] word = "opening" -> <<"opening", "gap">>
    [] word = "hours" -> <<"hours">>
    [] OTHER -> <<>>

\* s.includes(" ")
HasSpace(s) == FALSE

\* expandQuery: the words looked up, in order
ExpandWords(text) ==
  IF text = <<>> THEN <<>>
  ELSE Flatten([i \in 1..Len(text) |-> CleanAlpha(Lower(text[i]))])

\* new Set(words)
NewSet(words) == SetAddAll(<<>>, words)

\* the lookup callback: every single-word synonym, lower-cased, is added
AddSynonyms(expanded, word) ==
  LET syns == Synonyms(word)
      keep == SelectSeq(syns, LAMBDA s : ~HasSpace(s))
  IN  SetAddAll(expanded, [i \in 1..Len(keep) |-> Lower(keep[i])])

(* ------------------------------ the corpus ----------------------------- *)

\* what the Q:/A: regex yields for each content faq.txt can have; only the
\* last block of a file can have an empty answer
Parse(src) ==
  CASE src = "faq_a" ->
         << [q |-> <<"Reset", "password?">>, a |-> "Use the reset link."] >>
    [] src = "faq_b" ->
         << [q |-> <<"opening", "hours">>, a |-> "9 to 5"],
            [q |-> <<"opening", "hours">>, a |-> "10 to 6"],
            [q |-> <<"contact", "support">>, a |-> "Call 16221."],
            [q |-> <<"Reset", "my", "password?">>, a |-> ""] >>
    [] OTHER -> <<>>

Readable == {"faq_a", "faq_b", "no_blocks"}
Sources == Readable \cup {"unreadable"}

(* ------------------------------- TF-IDF -------------------------------- *)

\* natural TfIdf buildDocument: term counts of the tokens that are not stopwords
BuildDocument(tokens) == SelectSeq(tokens, LAMBDA t : ~IsStopword(t))

Df(term, docs) == Cardinality({d \in 1..Len(docs) : Contains(docs[d], term)})

\* natural's idf, 1 + ln(n / (1 + df)), in thousandths (rounded), for an
\* index of n = 1..8 documents of which df hold the term
IdfMilli(n, df) ==
  CASE n = 1 /\ df = 0 -> 1000
    [] n = 1 /\ df = 1 -> 307
    [] n = 2 /\ df = 0 -> 1693
    [] n = 2 /\ df = 1 -> 1000
    [] n = 2 /\ df = 2 -> 595
    [] n = 3 /\ df = 0 -> 2099
    [] n = 3 /\ df = 1 -> 1405
    [] n = 3 /\ df = 2 -> 1000
    [] n = 3 /\ df = 3 -> 712
    [] n = 4 /\ df = 0 -> 2386
    [] n = 4 /\ df = 1 -> 1693
    [] n = 4 /\ df = 2 -> 1288
    [] n = 4 /\ df = 3 -> 1000
    [] n = 4 /\ df = 4 -> 777
    [] n = 5 /\ df = 0 -> 2609
    [] n = 5 /\ df = 1 -> 1916
    [] n = 5 /\ df = 2 -> 1511
    [] n = 5 /\ df = 3 -> 1223
    [] n = 5 /\ df = 4 -> 1000
    [] n = 5 /\ df = 5 -> 818
    [] n = 6 /\ df = 0 -> 2792
    [] n = 6 /\ df = 1 -> 2099
    [] n = 6 /\ df = 2 -> 1693
    [] n = 6 /\ df = 3 -> 1405
    [] n = 6 /\ df = 4 -> 1182
    [] n = 6 /\ df = 5 -> 1000
    [] n = 6 /\ df = 6 -> 846
    [] n = 7 /\ df = 0 -> 2946
    [] n = 7 /\ df = 1 -> 2253
    [] n = 7 /\ df = 2 -> 1847
    [] n = 7 /\ df = 3 -> 1560
    [] n = 7 /\ df = 4 -> 1336
    [] n = 7 /\ df = 5 -> 1154
    [] n = 7 /\ df = 6 -> 1000
    [] n = 7 /\ df = 7 -> 866
    [] n = 8 /\ df = 0 -> 3079
    [] n = 8 /\ df = 1 -> 2386
    [] n = 8 /\ df = 2 -> 1981
    [] n = 8 /\ df = 3 -> 1693
    [] n = 8 /\ df = 4 -> 1470
    [] n = 8 /\ df = 5 -> 1288
    [] n = 8 /\ df = 6 -> 1134
    [] n = 8 /\ df = 7 -> 1000
    [] n = 8 /\ df = 8 -> 882

RECURSIVE Tfidf(_, _, _)
Tfidf(terms, d, docs) ==
  IF terms = <<>> THEN 0
  ELSE Count(Head(terms), docs[d]) * IdfMilli(Len(docs), Df(Head(terms), docs))
       + Tfidf(Tail(terms), d, docs)

\* tfidf.tfidfs(query, (i, score) => scores.push({index: i, score}))
Tfidfs(query, docs) ==
  [i \in 1..Len(docs) |-> [index |-> i, score |-> Tfidf(query, i, docs)]]

\* scores.sort((a, b) => b.score - a.score), a stable sort
RECURSIVE InsertDesc(_, _)
InsertDesc(x, s) ==
  IF s = <<>> THEN <<x>>
  ELSE IF Head(s).score >= x.score THEN <<Head(s)>> \o InsertDesc(x, Tail(s))
  ELSE <<x>> \o s

RECURSIVE SortDescFrom(_, _)
SortDescFrom(acc, s) ==
  IF s = <<>> THEN acc ELSE SortDescFrom(InsertDesc(Head(s), acc), Tail(s))

SortDesc(scores) == SortDescFrom(<<>>, scores)

(* -------------------------------- Fuse --------------------------------- *)

\* fuse.js (keys ["q"], ignoreLocation, minMatchCharLength 2) on `pattern`
\* against one question, before the threshold is applied: raw is the Bitap
\* score (errors over pattern length; 1000 when no two adjacent characters of
\* the question occur in the pattern), score the result's score (raw raised
\* to the field-length norm of the question); both in thousandths. Defined
\* for the questions asked and the questions of the corpora.
FuseMatch(pattern, text) ==
  CASE pattern = <<"watchword">> /\ text = <<"Reset", "password?">> ->
         [raw |-> 444, score |-> 564]
    [] pattern = <<"watchword">> /\ text = <<"opening", "hours">> ->
         [raw |-> 778, score |-> 837]
    [] pattern = <<"watchword">> /\ text = <<"contact", "support">> ->
         [raw |-> 778, score |-> 837]
    [] pattern = <<"watchword">> /\ text = <<"Reset", "my", "password?">> ->
         [raw |-> 444, score |-> 626]
    [] pattern = <<"opening", "hours">> /\ text = <<"Reset", "password?">> ->
         [raw |-> 769, score |-> 831]
    [] pattern = <<"opening", "hours">> /\ text = <<"opening", "hours">> ->
         [raw |-> 0, score |-> 0]
    [] pattern = <<"opening", "hours">> /\ text = <<"contact", "support">> ->
         [raw |-> 769, score |-> 831]
    [] pattern = <<"opening", "hours">> /\ text = <<"Reset", "my", "password?">> ->
         [raw |-> 769, score |-> 860]
    [] pattern = <<"pasword">> /\ text = <<"Reset", "password?">> ->
         [raw |-> 143, score |-> 253]
    [] pattern = <<"pasword">> /\ text = <<"opening", "hours">> ->
         [raw |-> 857, score |-> 897]
    [] pattern = <<"pasword">> /\ text = <<"contact", "support">> ->
         [raw |-> 571, score |-> 673]
    [] pattern = <<"pasword">> /\ text = <<"Reset", "my", "password?">> ->
         [raw |-> 143, score |-> 325]
    [] pattern = <<"opning">> /\ text = <<"Reset", "password?">> ->
         [raw |-> 1000, score |-> 1000]
    [] pattern = <<"opning">> /\ text = <<"opening", "hours">> ->
         [raw |-> 167, score |-> 282]
    [] pattern = <<"opning">> /\ text = <<"contact", "support">> ->
         [raw |-> 667, score |-> 751]
    [] pattern = <<"opning">> /\ text = <<"Reset", "my", "password?">> ->
         [raw |-> 1000, score |-> 1000]
    [] pattern = <<"Reset", "password?">> /\ text = <<"Reset", "password?">> ->
         [raw |-> 0, score |-> 0]
    [] pattern = <<"Reset", "password?">> /\ text = <<"opening", "hours">> ->
         [raw |-> 867, score |-> 904]
    [] pattern = <<"Reset", "password?">> /\ text = <<"contact", "support">> ->
         [raw |-> 733, score |-> 803]
    [] pattern = <<"Reset", "password?">> /\ text = <<"Reset", "my", "password?">> ->
         [raw |-> 200, score |-> 395]
    [] pattern = <<"contact", "support">> /\ text = <<"Reset", "password?">> ->
         [raw |-> 733, score |-> 803]
    [] pattern = <<"contact", "support">> /\ text = <<"opening", "hours">> ->
         [raw |-> 800, score |-> 854]
    [] pattern = <<"contact", "support">> /\ text = <<"contact", "support">> ->
         [raw |-> 0, score |-> 0]
    [] pattern = <<"contact", "support">> /\ text = <<"Reset", "my", "password?">> ->
         [raw |-> 733, score |-> 836]
    [] pattern = <<"Reset", "my", "password?">> /\ text = <<"Reset", "password?">> ->
         [raw |-> 167, score |-> 282]
    [] pattern = <<"Reset", "my", "password?">> /\ text = <<"opening", "hours">> ->
         [raw |-> 833, score |-> 879]
    [] pattern = <<"Reset", "my", "password?">> /\ text = <<"contact", "support">> ->
         [raw |-> 722, score |-> 794]
    [] pattern = <<"Reset", "my", "password?">> /\ text = <<"Reset", "my", "password?">> ->
         [raw |-> 0, score |-> 0]

\* Fuse's result order: ascending score, ties by index
RECURSIVE InsertAsc(_, _)
InsertAsc(x, s) ==
  IF s = <<>> THEN <<x>>
  ELSE IF Head(s).score <= x.score THEN <<Head(s)>> \o InsertAsc(x, Tail(s))
  ELSE <<x>> \o s

RECURSIVE SortAscFrom(_, _)
SortAscFrom(acc, s) ==
  IF s = <<>> THEN acc ELSE SortAscFrom(InsertAsc(Head(s), acc), Tail(s))

\* fuse.search(pattern, {limit}) with threshold FUSE_THRESHOLD
FuseSearch(index, pattern, limit) ==
  LET all == [i \in 1..Len(index) |->
                [item |-> index[i],
                 raw |-> FuseMatch(pattern, index[i].q).raw,
                 score |-> FuseMatch(pattern, index[i].q).score]]
      hits == SelectSeq(all, LAMBDA r : r.raw <= FUSE_THRESHOLD)
  IN  Slice(SortAscFrom(<<>>, hits), limit)

(* ------------------------------ loadFaqs ------------------------------- *)

\* the documents the loop of loadFaqs adds: one per entry, in corpus order
DocsOf(entries) ==
  [i \in 1..Len(entries) |-> BuildDocument(preprocess(entries[i].q))]

\* loadFaqs without the rebuild of the Fuse index
loadFaqsStaleFuse(src, st) ==
  IF src \notin Readable
    THEN [threw |-> TRUE, faqs |-> st.faqs, docs |-> st.docs, fuse |-> st.fuse]
    ELSE [threw |-> FALSE, faqs |-> Parse(src), docs |-> DocsOf(Parse(src)),
          fuse |-> st.fuse]

\* loadFaqs with faqs and tfidf.documents emptied before the file is read
loadFaqsClearsFirst(src, st) ==
  IF src \notin Readable
    THEN [threw |-> TRUE, faqs |-> <<>>, docs |-> <<>>, fuse |-> st.fuse]
    ELSE [threw |-> FALSE, faqs |-> Parse(src), docs |-> DocsOf(Parse(src)),
          fuse |-> Parse(src)]

\* loadFaqs without `tfidf.documents = []`: the documents pile up
loadFaqsKeepsDocuments(src, st) ==
  IF src \notin Readable
    THEN [threw |-> TRUE, faqs |-> st.faqs, docs |-> st.docs, fuse |-> st.fuse]
    ELSE [threw |-> FALSE, faqs |-> Parse(src),
          docs |-> st.docs \o DocsOf(Parse(src)), fuse |-> Parse(src)]

\* loadFaqs() on the indexes st = [faqs, docs, fuse]; threw = readFileSync threw
loadFaqs(src, st) ==
  IF src \notin Readable
    THEN [threw |-> TRUE, faqs |-> st.faqs, docs |-> st.docs, fuse |-> st.fuse]
    ELSE LET entries == Parse(src)
         IN  [threw |-> FALSE,
              faqs |-> entries,
              docs |-> DocsOf(entries),
              fuse |-> entries]

(* ----------------------------- findAnswers ----------------------------- *)

\* !userQuestion || !userQuestion.trim()
IsBlank(q) ==
  q.kind \in {"undefined", "falsy"} \/ (q.kind = "string" /\ IsBlankText(q.text))

\* findAnswers throwing on every question it does not return early for
ThrowsOnAnyQuestion(q) == q.kind \in {"number", "string"}

\* userQuestion.trim is not a function: a truthy value that is no string
Throws(q) == q.kind = "number"

\* second ? top.score - second.score : 0
GapZeroWithoutSecond(best) ==
  IF Len(best) > 1 THEN best[1].score - best[2].score ELSE 0

\* second ? top.score - second.score : top.score
Gap(best) ==
  IF Len(best) > 1 THEN best[1].score - best[2].score ELSE best[1].score

\* the fuzzy fallback without the ambiguity test
FuzzyFallbackTakesBest(q, fuseIdx) ==
  LET fuseResults == FuseSearch(fuseIdx, q.text, K)
      suggestions == [i \in 1..Len(fuseResults) |-> fuseResults[i].item.q]
  IN  IF Len(fuseResults) > 0 /\ fuseResults[1].score <= FUSE_ACCEPT_THRESHOLD
        THEN [answer |-> fuseResults[1].item.a, suggestions |-> suggestions,
              ret |-> "fuzzy", readTfidf |-> TRUE, readFuse |-> TRUE]
        ELSE [answer |-> Null, suggestions |-> suggestions,
              ret |-> "none", readTfidf |-> TRUE, readFuse |-> TRUE]

\* the fuzzy fallback of findAnswers
FuzzyFallback(q, fuseIdx) ==
  LET fuseResults == FuseSearch(fuseIdx, q.text, K)
      suggestions == [i \in 1..Len(fuseResults) |-> fuseResults[i].item.q]
  IN  IF Len(fuseResults) > 0 /\ fuseResults[1].score <= FUSE_ACCEPT_THRESHOLD
        THEN IF Len(fuseResults) > 1
                /\ Abs(fuseResults[1].score - fuseResults[2].score) < FUSE_AMBIGUITY
               THEN [answer |-> Null, suggestions |-> suggestions,
                     ret |-> "ambiguous", readTfidf |-> TRUE, readFuse |-> TRUE]
               ELSE [answer |-> fuseResults[1].item.a, suggestions |-> suggestions,
                     ret |-> "fuzzy", readTfidf |-> TRUE, readFuse |-> TRUE]
        ELSE [answer |-> Null, suggestions |-> suggestions,
              ret |-> "none", readTfidf |-> TRUE, readFuse |-> TRUE]

\* findAnswers running fuse.search before the relevance thresholds are tested
MatchSearchesFuseFirst(q, processed, expanded, docs, faqsNow, fuseIdx) ==
  LET expansion == preprocess(expanded)
      query == processed \o expansion
      best == Slice(SortDesc(Tfidfs(query, docs)), K)
  IN  IF Len(best) > 0 /\ best[1].score >= TFIDF_STRONG
         /\ Gap(best) >= TFIDF_SCORE_GAP
        THEN [answer |-> faqsNow[best[1].index].a, suggestions |-> <<>>,
              ret |-> "confident", readTfidf |-> TRUE, readFuse |-> TRUE]
      ELSE IF Len(best) > 0 /\ best[1].score >= TFIDF_WEAK
        THEN [answer |-> faqsNow[best[1].index].a,
              suggestions |-> [i \in 1..Len(best) |-> faqsNow[best[i].index].q],
              ret |-> "weak", readTfidf |-> TRUE, readFuse |-> TRUE]
      ELSE FuzzyFallback(q, fuseIdx)

\* findAnswers from the point where expandQuery has resolved: `processed` is
\* preprocess(userQuestion), `expanded` the Set expandQuery joins
Match(q, processed, expanded, docs, faqsNow, fuseIdx) ==
  LET expansion == preprocess(expanded)
      query == processed \o expansion
      best == Slice(SortDesc(Tfidfs(query, docs)), K)
  IN  IF Len(best) > 0 /\ best[1].score >= TFIDF_STRONG
         /\ Gap(best) >= TFIDF_SCORE_GAP
        THEN [answer |-> faqsNow[best[1].index].a, suggestions |-> <<>>,
              ret |-> "confident", readTfidf |-> TRUE, readFuse |-> FALSE]
      ELSE IF Len(best) > 0 /\ best[1].score >= TFIDF_WEAK
        THEN [answer |-> faqsNow[best[1].index].a,
              suggestions |-> [i \in 1..Len(best) |-> faqsNow[best[i].index].q],
              ret |-> "weak", readTfidf |-> TRUE, readFuse |-> FALSE]
      ELSE FuzzyFallback(q, fuseIdx)

\* a blank question scored against the relevance index before returning
BlankResultAfterScoring ==
  [answer |-> Null, suggestions |-> <<>>, ret |-> "blank",
   readTfidf |-> TRUE, readFuse |-> FALSE]

\* the early return of findAnswers for an empty or blank question
BlankResult ==
  [answer |-> Null, suggestions |-> <<>>, ret |-> "blank",
   readTfidf |-> FALSE, readFuse |-> FALSE]

(* ------------------------------- state --------------------------------- *)

VARIABLES
  faqs,        \* let faqs
  tfidfDocs,   \* tfidf.documents
  fuse,        \* the records of the Fuse index
  failCount,   \* let failCount
  calls,       \* the /ask requests suspended in expandQuery, oldest first
  activeSrc,   \* the file content of the last load that completed
  lastReload,  \* the last /reload: its outcome and, while it is the last step,
               \* the indexes before it
  lastResp,    \* the /ask response the last step sent, and what produced it
  streak,      \* NoAnswer outcomes since the last answer, escalation or start
  nDone,       \* number of /ask requests answered
  nEsc,        \* number of escalation responses
  allNoAnswer, \* every request answered so far was classified NoAnswer
  peak,        \* the most requests suspended at once so far
  norm         \* a text, and preprocess applied to it once and twice

vars == <<faqs, tfidfDocs, fuse, failCount, calls, activeSrc, lastReload,
          lastResp, streak, nDone, nEsc, allNoAnswer, peak, norm>>

Questions ==
  { [kind |-> "undefined", text |-> <<>>],
    [kind |-> "string", text |-> <<"", "">>],
    [kind |-> "falsy", text |-> <<>>],
    [kind |-> "number", text |-> <<>>],
    [kind |-> "string", text |-> <<"watchword">>],
    [kind |-> "string", text |-> <<"opening", "hours">>],
    [kind |-> "string", text |-> <<"pasword">>],
    [kind |-> "string", text |-> <<"opning">>] }

NoQuestion == [kind |-> "undefined", text |-> <<>>]

\* a request whose lookup never calls back keeps nothing that is used again
Pending ==
  [pc |-> "pending", q |-> NoQuestion, processed |-> <<>>, words |-> <<>>,
   expanded |-> <<>>]

NoResult ==
  [answer |-> Null, suggestions |-> <<>>, ret |-> "threw",
   readTfidf |-> FALSE, readFuse |-> FALSE]

\* no response was sent by the last step
NoResp ==
  [q |-> NoQuestion, status |-> 0, result |-> NoResult, answer |-> Null,
   suggestions |-> <<>>, escalated |-> FALSE, failBefore |-> 0, nth |-> 0,
   processed |-> <<>>, expanded |-> <<>>, src |-> ""]

EmptyIndexes == [faqs |-> <<>>, docs |-> <<>>, fuse |-> <<>>]

Indexes == [faqs |-> faqs, docs |-> tfidfDocs, fuse |-> fuse]

\* the last /reload once another step has run: the indexes it replaced are gone
Settled == [lastReload EXCEPT !.fresh = FALSE, !.before = EmptyIndexes]

\* number of /ask requests received
started == nDone + Len(calls)

Remove(s, i) == SubSeq(s, 1, i - 1) \o SubSeq(s, i + 1, Len(s))

\* no text is being normalized
NoText == [stage |-> 0, x |-> <<>>, once |-> <<>>, twice |-> <<>>]


\* the module-level loadFaqs() has completed before the first request
Init ==
  \E src \in Readable :
    LET ld == loadFaqs(src, EmptyIndexes)
    IN  /\ faqs = ld.faqs
        /\ tfidfDocs = ld.docs
        /\ fuse = ld.fuse
        /\ activeSrc = src
        /\ failCount = 0
        /\ calls = <<>>
        /\ lastReload = [failed |-> FALSE, fresh |-> FALSE,
                         before |-> EmptyIndexes]
        /\ lastResp = NoResp
        /\ streak = 0
        /\ nDone = 0
        /\ nEsc = 0
        /\ allNoAnswer = TRUE
        /\ peak = 0
        /\ norm = NoText

(* ----------------------------- the handlers ---------------------------- *)

\* result.answer !== "" as the condition: null counts as an answer
TruthyUnlessEmpty(answer) == answer # ""

\* result.answer as a condition
Truthy(answer) == answer # Null /\ answer # ""

\* the handler without the reset at the escalation
AskHandlerNoReset(result, fc) ==
  IF Truthy(result.answer)
    THEN [failCount |-> 0, answer |-> result.answer,
          suggestions |-> result.suggestions, escalated |-> FALSE]
  ELSE IF fc + 1 >= FAIL_LIMIT
    THEN [failCount |-> fc + 1, answer |-> ESCALATION, suggestions |-> <<>>,
          escalated |-> TRUE]
    ELSE [failCount |-> fc + 1, answer |-> result.answer,
          suggestions |-> result.suggestions, escalated |-> FALSE]

\* the handler escalating only once failCount has passed FAIL_LIMIT
AskHandlerLateLimit(result, fc) ==
  IF Truthy(result.answer)
    THEN [failCount |-> 0, answer |-> result.answer,
          suggestions |-> result.suggestions, escalated |-> FALSE]
  ELSE IF fc + 1 > FAIL_LIMIT
    THEN [failCount |-> 0, answer |-> ESCALATION, suggestions |-> <<>>,
          escalated |-> TRUE]
    ELSE [failCount |-> fc + 1, answer |-> result.answer,
          suggestions |-> result.suggestions, escalated |-> FALSE]

\* the body of app.post("/ask") after findAnswers has returned `result`
AskHandler(result, fc) ==
  IF Truthy(result.answer)
    THEN [failCount |-> 0, answer |-> result.answer,
          suggestions |-> result.suggestions, escalated |-> FALSE]
  ELSE IF fc + 1 >= FAIL_LIMIT
    THEN [failCount |-> 0, answer |-> ESCALATION, suggestions |-> <<>>,
          escalated |-> TRUE]
    ELSE [failCount |-> fc + 1, answer |-> result.answer,
          suggestions |-> result.suggestions, escalated |-> FALSE]

\* the outcome the Decision Engine names for a findAnswers return
IsNoAnswer(result) == result.ret \in {"blank", "ambiguous", "none"}

\* a request with question q gets findAnswers' `result` handled
Respond(q, processed, expanded, result) ==
  LET h == AskHandler(result, failCount)
      pos == IF IsNoAnswer(result) THEN streak + 1 ELSE 0
  IN  /\ failCount' = h.failCount
      /\ lastResp' = [q |-> q, status |-> 200,
                      result |-> result, answer |-> h.answer,
                      suggestions |-> h.suggestions, escalated |-> h.escalated,
                      failBefore |-> failCount, nth |-> pos,
                      processed |-> processed, expanded |-> expanded,
                      src |-> activeSrc]
      /\ streak' = IF ~IsNoAnswer(result) \/ h.escalated \/ pos >= FAIL_LIMIT
                     THEN 0 ELSE pos
      /\ nDone' = nDone + 1
      /\ nEsc' = nEsc + (IF h.escalated THEN 1 ELSE 0)
      /\ allNoAnswer' = (allNoAnswer /\ IsNoAnswer(result))

\* POST /ask with an empty or blank question: findAnswers returns at once
AskBlank(q) ==
  /\ started < MaxCalls
  /\ IsBlank(q)
  /\ Respond(q, <<>>, <<>>, BlankResult)
  /\ lastReload' = Settled
  /\ UNCHANGED <<faqs, tfidfDocs, fuse, calls, activeSrc, peak, norm>>

\* the catch of the handler also clearing the failure counter
AskThrowsResets(q) ==
  /\ started < MaxCalls
  /\ ~IsBlank(q)
  /\ Throws(q)
  /\ lastResp' = [q |-> q, status |-> 500,
                  result |-> NoResult, answer |-> Null, suggestions |-> <<>>,
                  escalated |-> FALSE, failBefore |-> failCount, nth |-> 0,
                  processed |-> <<>>, expanded |-> <<>>,
                  src |-> activeSrc]
  /\ failCount' = 0
  /\ nDone' = nDone + 1
  /\ allNoAnswer' = FALSE
  /\ lastReload' = Settled
  /\ UNCHANGED <<faqs, tfidfDocs, fuse, calls, activeSrc,
                 streak, nEsc, peak, norm>>

\* POST /ask with a question that is no string: findAnswers throws, the
\* handler's catch answers 500
AskThrows(q) ==
  /\ started < MaxCalls
  /\ ~IsBlank(q)
  /\ Throws(q)
  /\ lastResp' = [q |-> q, status |-> 500,
                  result |-> NoResult, answer |-> Null, suggestions |-> <<>>,
                  escalated |-> FALSE, failBefore |-> failCount, nth |-> 0,
                  processed |-> <<>>, expanded |-> <<>>,
                  src |-> activeSrc]
  /\ nDone' = nDone + 1
  /\ allNoAnswer' = FALSE
  /\ lastReload' = Settled
  /\ UNCHANGED <<faqs, tfidfDocs, fuse, failCount, calls, activeSrc,
                 streak, nEsc, peak, norm>>

\* the words still to look up once the lookups of the first k of `words`
\* have thrown inside the Promise executor: .catch(() => {}) and the awaits
\* continue in microtasks, so the k throws take no step of their own
AfterThrows(words, k) == SubSeq(words, k + 1, Len(words))

\* POST /ask with a non-blank string: preprocess, then expandQuery runs until
\* a lookup is issued that does not throw (the first k throw), and suspends
\* awaiting its callback
AskStart(q, k) ==
  /\ started < MaxCalls
  /\ Len(calls) < MaxInFlight
  /\ ~IsBlank(q)
  /\ ~Throws(q)
  /\ k < Len(ExpandWords(q.text))
  /\ calls' = Append(calls,
                 [pc |-> "expand", q |-> q,
                  processed |-> preprocess(q.text),
                  words |-> AfterThrows(ExpandWords(q.text), k),
                  expanded |-> NewSet(ExpandWords(q.text))])
  /\ peak' = IF Len(calls) + 1 > peak THEN Len(calls) + 1 ELSE peak
  /\ lastResp' = NoResp
  /\ lastReload' = Settled
  /\ UNCHANGED <<faqs, tfidfDocs, fuse, failCount, activeSrc,
                 streak, nDone, nEsc, allNoAnswer, norm>>

\* POST /ask with a non-blank string whose every lookup throws (or that has
\* no word to look up): nothing is awaited but settled promises, so
\* expandQuery, the scoring and the handler run before any other request
AskAtOnce(q) ==
  /\ started < MaxCalls
  /\ ~IsBlank(q)
  /\ ~Throws(q)
  /\ Respond(q, preprocess(q.text), NewSet(ExpandWords(q.text)),
             Match(q, preprocess(q.text), NewSet(ExpandWords(q.text)),
                   tfidfDocs, faqs, fuse))
  /\ lastReload' = Settled
  /\ UNCHANGED <<faqs, tfidfDocs, fuse, calls, activeSrc, peak, norm>>

\* the request awaits the callback of the lookup of Head(calls[i].words)
Awaiting(i) == calls[i].pc = "expand" /\ calls[i].words # <<>>

\* wordnet.lookup calls back with its results; the lookups of the next k
\* words throw and one more is issued, whose callback the request awaits
LookupResults(i, k) ==
  /\ Awaiting(i)
  /\ k < Len(Tail(calls[i].words))
  /\ calls' = [calls EXCEPT ![i].expanded = AddSynonyms(@, Head(calls[i].words)),
                            ![i].words = AfterThrows(Tail(@), k)]
  /\ lastResp' = NoResp
  /\ lastReload' = Settled
  /\ UNCHANGED <<faqs, tfidfDocs, fuse, failCount, activeSrc,
                 streak, nDone, nEsc, allNoAnswer, peak, norm>>

\* wordnet.lookup never invokes its callback: the Promise stays pending
LookupSilent(i) ==
  /\ Awaiting(i)
  /\ calls' = [calls EXCEPT ![i] = Pending]
  /\ lastResp' = NoResp
  /\ lastReload' = Settled
  /\ UNCHANGED <<faqs, tfidfDocs, fuse, failCount, activeSrc,
                 streak, nDone, nEsc, allNoAnswer, peak, norm>>

\* wordnet.lookup calls back with its results and no later lookup is left
\* pending (it was the last word, or the lookups of all later words throw):
\* expandQuery returns, and the rest of findAnswers and the handler run in
\* the microtasks of the same callback
AskFinish(i) ==
  /\ Awaiting(i)
  /\ LET expanded == AddSynonyms(calls[i].expanded, Head(calls[i].words))
     IN  Respond(calls[i].q, calls[i].processed, expanded,
                 Match(calls[i].q, calls[i].processed, expanded,
                       tfidfDocs, faqs, fuse))
  /\ calls' = Remove(calls, i)
  /\ lastReload' = Settled
  /\ UNCHANGED <<faqs, tfidfDocs, fuse, activeSrc, peak, norm>>

\* GET /reload that also clears the failure counter
ReloadResetsCount(src) ==
  /\ LET ld == loadFaqs(src, Indexes)
     IN  /\ faqs' = ld.faqs
         /\ tfidfDocs' = ld.docs
         /\ fuse' = ld.fuse
         /\ activeSrc' = IF ld.threw THEN activeSrc ELSE src
         /\ lastReload' = [failed |-> ld.threw, fresh |-> TRUE,
                           before |-> Indexes]
  /\ lastResp' = NoResp
  /\ failCount' = 0
  /\ UNCHANGED <<calls, streak, nDone, nEsc, allNoAnswer, peak, norm>>

\* GET /reload while faq.txt holds `src`
Reload(src) ==
  /\ LET ld == loadFaqs(src, Indexes)
     IN  /\ faqs' = ld.faqs
         /\ tfidfDocs' = ld.docs
         /\ fuse' = ld.fuse
         /\ activeSrc' = IF ld.threw THEN activeSrc ELSE src
         /\ lastReload' = [failed |-> ld.threw, fresh |-> TRUE,
                           before |-> Indexes]
  /\ lastResp' = NoResp
  /\ UNCHANGED <<failCount, calls, streak, nDone, nEsc, allNoAnswer, peak, norm>>

Next ==
  \/ \E q \in Questions : AskBlank(q)
  \/ \E q \in Questions : AskThrows(q)
  \/ \E q \in Questions : \E k \in 0..MaxWords : AskStart(q, k)
  \/ \E q \in Questions : AskAtOnce(q)
  \/ \E i \in 1..Len(calls) : \E k \in 0..MaxWords : LookupResults(i, k)
  \/ \E i \in 1..Len(calls) : LookupSilent(i)
  \/ \E i \in 1..Len(calls) : AskFinish(i)
  \/ \E src \in Sources : Reload(src)

Spec == Init /\ [][Next]_vars

(* ------------------- preprocess as a function of a text ---------------- *)

\* the pieces the texts are made of
Pieces == {"", "Reset", "password?", "my", "opening", "agreed", "16221"}

\* the texts of at most MaxWords pieces
Texts == UNION {[1..n -> Pieces] : n \in 0..MaxWords}

\* the server as it starts on faq_a, and a text x to normalize
NormInit ==
  /\ \E x \in Texts : norm = [stage |-> 0, x |-> x, once |-> <<>>, twice |-> <<>>]
  /\ LET ld == loadFaqs("faq_a", EmptyIndexes)
     IN  /\ faqs = ld.faqs
         /\ tfidfDocs = ld.docs
         /\ fuse = ld.fuse
  /\ activeSrc = "faq_a"
  /\ failCount = 0
  /\ calls = <<>>
  /\ lastReload = [failed |-> FALSE, fresh |-> FALSE, before |-> EmptyIndexes]
  /\ lastResp = NoResp
  /\ streak = 0
  /\ nDone = 0
  /\ nEsc = 0
  /\ allNoAnswer = TRUE
  /\ peak = 0

\* preprocess(x), then preprocess of what it returned
Normalize ==
  /\ norm.stage < 2
  /\ norm' = IF norm.stage = 0
               THEN [norm EXCEPT !.stage = 1, !.once = preprocess(norm.x)]
               ELSE [norm EXCEPT !.stage = 2, !.twice = preprocess(norm.once)]
  /\ UNCHANGED <<faqs, tfidfDocs, fuse, failCount, calls, activeSrc, lastReload,
                 lastResp, streak, nDone, nEsc, allNoAnswer, peak>>

NormNext == Normalize

NormSpec == NormInit /\ [][NormNext]_vars


(* ------------------------------ properties ----------------------------- *)

\* the last step sent a /ask response with status 200
Responded == lastResp.status = 200

\* the question of the last response is missing, falsy, empty or whitespace
RespBlank ==
  \/ lastResp.q.kind \in {"undefined", "falsy"}
  \/ lastResp.q.kind = "string" /\ \A i \in 1..Len(lastResp.q.text) : lastResp.q.text[i] = ""

\* the last response came out of the matching logic
Matched == Responded /\ ~RespBlank

\* the scoring string of the last response and its score against every document
RespQuery == lastResp.processed \o preprocess(lastResp.expanded)
RespScore == [i \in 1..Len(tfidfDocs) |-> Tfidf(RespQuery, i, tfidfDocs)]

\* the first entry with the highest score, and the best score of the others
TopIdx ==
  CHOOSE i \in 1..Len(RespScore) :
    /\ \A j \in 1..Len(RespScore) : RespScore[j] <= RespScore[i]
    /\ \A j \in 1..(i - 1) : RespScore[j] < RespScore[i]
TopScore == RespScore[TopIdx]
SecondScore ==
  CHOOSE x \in {RespScore[j] : j \in (1..Len(RespScore)) \ {TopIdx}} :
    \A j \in (1..Len(RespScore)) \ {TopIdx} : RespScore[j] <= x

ConfidentCond ==
  /\ Len(RespScore) > 0
  /\ TopScore >= TFIDF_STRONG
  /\ Len(RespScore) > 1 => TopScore - SecondScore >= TFIDF_SCORE_GAP

NoRepeat(s) == \A i, j \in 1..Len(s) : i # j => s[i] # s[j]

\* the snapshot a completed load of `src` builds
SnapFaqs(src) == Parse(src)
SnapDocs(src) ==
  [i \in 1..Len(Parse(src)) |-> BuildDocument(preprocess(Parse(src)[i].q))]

\* C1: a response is the escalation message with no suggestions exactly when
\* it is the FAIL_LIMIT-th consecutive NoAnswer outcome since the last
\* answer-bearing response, the last escalation or the start, and failCount
\* is 0 right after it.
C1_EscalatesExactlyOnLimit ==
  Responded =>
    /\ lastResp.escalated <=>
         (IsNoAnswer(lastResp.result) /\ lastResp.nth = FAIL_LIMIT)
    /\ lastResp.escalated =>
         (lastResp.answer = ESCALATION /\ lastResp.suggestions = <<>>
          /\ failCount = 0)

\* C2 as stated: every empty or blank question is answered {null, []} and
\* neither index is read.
C2_BlankAlwaysNull ==
  (Responded /\ RespBlank) =>
    /\ lastResp.answer = Null
    /\ lastResp.suggestions = <<>>
    /\ ~lastResp.result.readTfidf
    /\ ~lastResp.result.readFuse

\* C2 amended: for every empty or blank question neither index is read, and
\* the response is {null, []} unless failCount was FAIL_LIMIT - 1 before the
\* call, when it is the escalation message with no suggestions.
C2_BlankNullOrEscalation ==
  (Responded /\ RespBlank) =>
    /\ ~lastResp.result.readTfidf
    /\ ~lastResp.result.readFuse
    /\ lastResp.suggestions = <<>>
    /\ lastResp.answer =
         (IF lastResp.failBefore = FAIL_LIMIT - 1 THEN ESCALATION ELSE Null)

C2_Witness ==
  /\ Responded
  /\ lastResp.q = [kind |-> "string", text |-> <<"", "">>]
  /\ lastResp.failBefore = FAIL_LIMIT - 1
  /\ lastResp.answer = ESCALATION

\* C3: whatever reloads ran while a request was suspended, its answer and
\* suggestions are those the matching logic gives on the relevance index,
\* the entries and the fuzzy index of one completed load.
C3_OneSnapshot ==
  Matched =>
    lastResp.result =
      Match(lastResp.q, lastResp.processed, lastResp.expanded,
            SnapDocs(lastResp.src), SnapFaqs(lastResp.src), SnapFaqs(lastResp.src))

\* a reload has just replaced the corpus under a request suspended at a
\* lookup
C3_Witness ==
  /\ lastReload.fresh
  /\ ~lastReload.failed
  /\ lastReload.before.faqs # <<>>
  /\ faqs # <<>>
  /\ Len(lastReload.before.faqs) # Len(faqs)
  /\ Len(calls) > 0
  /\ calls[1].pc = "expand"
  /\ calls[1].words # <<>>

\* C4: a reload that fails leaves the corpus, the relevance index and the
\* fuzzy index as they were, and the requests answered after it are answered
\* from the snapshot that was active before it.
C4_FailedReloadKeepsSnapshot ==
  /\ (lastReload.fresh /\ lastReload.failed) => Indexes = lastReload.before
  /\ lastReload.failed =>
       /\ faqs = SnapFaqs(activeSrc)
       /\ tfidfDocs = SnapDocs(activeSrc)
       /\ fuse = SnapFaqs(activeSrc)
  /\ (lastReload.failed /\ Matched) =>
       /\ lastResp.src = activeSrc
       /\ lastResp.result =
            Match(lastResp.q, lastResp.processed, lastResp.expanded,
                  SnapDocs(activeSrc), SnapFaqs(activeSrc), SnapFaqs(activeSrc))

C4_Witness ==
  /\ lastReload.failed
  /\ ~lastReload.fresh
  /\ Matched
  /\ lastResp.result.ret = "confident"
  /\ lastResp.answer = "Use the reset link."

\* C5: every /ask request is eventually answered, whatever the lookups do:
\* no request is ever left awaiting a lookup that nothing will resolve (a
\* request in "pending" has no step that resumes it).
C5_NoRequestLeftPending == \A i \in 1..Len(calls) : calls[i].pc # "pending"

\* C6: an outcome with an answer (confident, weak or fuzzy) sets failCount
\* to 0, and a NoAnswer outcome increments it by one (the handler then
\* resets it when it reaches FAIL_LIMIT).
C6_ResetOnAnswerCountOnNoAnswer ==
  Responded =>
    failCount =
      (IF ~IsNoAnswer(lastResp.result) THEN 0
       ELSE IF lastResp.failBefore + 1 >= FAIL_LIMIT THEN 0
       ELSE lastResp.failBefore + 1)

\* C7: while every request answered so far was a NoAnswer outcome, in
\* whatever order the suspended requests resumed, the escalations number
\* nDone div FAIL_LIMIT and failCount is nDone mod FAIL_LIMIT.
C7_NoLostUpdate ==
  allNoAnswer =>
    /\ nEsc = nDone \div FAIL_LIMIT
    /\ failCount = nDone % FAIL_LIMIT

C7_Witness ==
  /\ allNoAnswer
  /\ nDone = FAIL_LIMIT
  /\ nEsc = 1
  /\ failCount = 0
  /\ Matched
  /\ lastResp.escalated
  /\ peak >= 2

\* C8: the suggestions of every result hold no question twice and are in
\* score order (descending relevance, or ascending fuzzy score).
C8_SuggestionsDistinctOrdered ==
  Responded =>
    LET sg == lastResp.result.suggestions
        rel(t) == Tfidf(RespQuery, 1, <<BuildDocument(preprocess(t))>>)
        fz(t) == FuseMatch(lastResp.q.text, t).score
    IN  /\ NoRepeat(sg)
        /\ \A i \in 1..(Len(sg) - 1) :
             IF lastResp.result.readFuse
               THEN fz(sg[i]) <= fz(sg[i + 1])
               ELSE rel(sg[i]) >= rel(sg[i + 1])

\* C9: the result is the top entry's answer with no suggestions exactly when
\* the top relevance score is at least TFIDF_STRONG and exceeds the second
\* best by at least TFIDF_SCORE_GAP, a lone entry having no second best.
C9_ConfidentIffStrongAndGap ==
  Matched =>
    (ConfidentCond <=>
       /\ Len(faqs) > 0
       /\ lastResp.result.answer = faqs[TopIdx].a
       /\ lastResp.result.suggestions = <<>>)

C9_Witness ==
  /\ Matched
  /\ Len(faqs) = 1
  /\ ConfidentCond
  /\ lastResp.result.answer = "Use the reset link."
  /\ lastResp.result.suggestions = <<>>

\* C10: when the result is not confident and the top relevance score is at
\* least TFIDF_WEAK, the result is the top entry's answer with, as
\* suggestions, the questions of the K best-scoring entries in descending
\* score order.
C10_WeakAnswerTopK ==
  (Matched /\ Len(RespScore) > 0 /\ ~ConfidentCond /\ TopScore >= TFIDF_WEAK) =>
    LET sg == lastResp.result.suggestions
        n == IF Len(RespScore) < K THEN Len(RespScore) ELSE K
    IN  /\ lastResp.result.answer = faqs[TopIdx].a
        /\ Len(sg) = n
        /\ \E idx \in [1..n -> 1..Len(RespScore)] :
             /\ \A i, j \in 1..n : i # j => idx[i] # idx[j]
             /\ \A i \in 1..(n - 1) : RespScore[idx[i]] >= RespScore[idx[i + 1]]
             /\ \A j \in 1..Len(RespScore) :
                  (\A i \in 1..n : idx[i] # j) => RespScore[j] <= RespScore[idx[n]]
             /\ \A i \in 1..n : sg[i] = faqs[idx[i]].q

\* two entries tie above TFIDF_WEAK in a corpus of more than K entries
C10_Witness ==
  /\ Matched
  /\ Len(RespScore) > K
  /\ RespScore[1] = RespScore[2]
  /\ RespScore[1] >= TFIDF_WEAK
  /\ ~ConfidentCond
  /\ Len(lastResp.result.suggestions) = K
  /\ lastResp.result.suggestions[1] = faqs[1].q
  /\ lastResp.result.suggestions[2] = faqs[2].q

\* the fuzzy candidates of the last response, best first
RespFuse == FuseSearch(fuse, lastResp.q.text, K)
RespFuseQs == [i \in 1..Len(RespFuse) |-> RespFuse[i].item.q]

\* no relevance score of the last response reaches TFIDF_WEAK
BelowWeak == Len(RespScore) = 0 \/ TopScore < TFIDF_WEAK

\* C11: when the relevance score is below TFIDF_WEAK and no fuzzy candidate
\* clears FUSE_ACCEPT_THRESHOLD, the result has no answer, and its
\* suggestions are the fuzzy candidates if there are any and otherwise the
\* first K questions of the corpus.
C11_NoAnswerSuggestions ==
  (Matched /\ BelowWeak
     /\ \A i \in 1..Len(RespFuse) : RespFuse[i].score > FUSE_ACCEPT_THRESHOLD) =>
    /\ lastResp.result.answer = Null
    /\ lastResp.result.suggestions =
         (IF RespFuseQs # <<>> THEN RespFuseQs
          ELSE [i \in 1..Len(Slice(faqs, K)) |-> faqs[i].q])

\* C12: a step that runs a reload, whether the load succeeds or fails and
\* whatever requests are suspended, leaves failCount as it was, so the
\* NoAnswer calls still needed for an escalation are FAIL_LIMIT - failCount
\* before and after it.
C12_ReloadKeepsFailCount ==
  [][lastReload'.fresh => failCount' = failCount]_vars

\* a failed reload has just run between NoAnswer calls, one short of the
\* escalation, with a request suspended
C12_Witness ==
  /\ lastReload.fresh
  /\ lastReload.failed
  /\ failCount = FAIL_LIMIT - 1
  /\ Len(calls) > 0

\* the last step sent a /ask response of any status
Answered == lastResp.status # 0

\* ask(question: string), the question possibly missing
WellFormed(q) == q.kind \in {"string", "undefined"}

\* C13: every response to a well-formed ask call has status 200 and is
\* either the result of findAnswers (an answer, or no answer with its
\* suggestions) or the escalation message with no suggestions; it is never
\* the error response.
C13_WellFormedNeverErrors ==
  (Answered /\ WellFormed(lastResp.q)) =>
    /\ lastResp.status = 200
    /\ IF lastResp.escalated
         THEN lastResp.answer = ESCALATION /\ lastResp.suggestions = <<>>
         ELSE /\ lastResp.answer = lastResp.result.answer
              /\ lastResp.suggestions = lastResp.result.suggestions

\* a non-blank question matched nothing on an empty corpus after a failed
\* reload, and was answered with a plain no-answer result
C13_Witness ==
  /\ Matched
  /\ lastReload.failed
  /\ faqs = <<>>
  /\ lastResp.answer = Null
  /\ ~lastResp.escalated

\* C14: preprocess is idempotent: for every text, applying it to its own
\* result gives that result again.
C14_NormalizeIdempotent ==
  norm.stage = 2 => norm.twice = norm.once

\* C15: whenever fuse.search ran during a call, the call was for a non-blank
\* question whose relevance scores gave neither a confident nor a weak
\* answer (no score reached TFIDF_WEAK); a call whose relevance result is
\* accepted runs no fuzzy search.
C15_FuzzyOnlyAfterRelevanceFails ==
  Responded =>
    /\ lastResp.result.readFuse => (~RespBlank /\ BelowWeak)
    /\ (Matched /\ ~BelowWeak) =>
         (~lastResp.result.readFuse /\ lastResp.result.ret \in {"confident", "weak"})

\* the fuzzy index was searched, and gave the answer, after the relevance
\* index scored a non-empty corpus below TFIDF_WEAK
C15_Witness ==
  /\ Matched
  /\ lastResp.result.readFuse
  /\ Len(RespScore) > 0
  /\ BelowWeak
  /\ lastResp.result.answer = "Use the reset link."

\* the best fuzzy candidate of the last response is within the acceptance
\* threshold; it is within the ambiguity epsilon of the second best
FuzzyAccepted == Len(RespFuse) > 0 /\ RespFuse[1].score <= FUSE_ACCEPT_THRESHOLD
FuzzyAmbiguous ==
  Len(RespFuse) > 1 /\ Abs(RespFuse[1].score - RespFuse[2].score) < FUSE_AMBIGUITY

\* C16: in the fuzzy fallback the result is the best candidate's answer
\* exactly when that candidate is within FUSE_ACCEPT_THRESHOLD and not within
\* FUSE_AMBIGUITY of the second best; a best candidate within the threshold
\* but ambiguous gives no answer; in both cases the suggestions are the
\* candidates' questions.
C16_FuzzyAcceptUnlessAmbiguous ==
  (Matched /\ BelowWeak) =>
    /\ (FuzzyAccepted /\ ~FuzzyAmbiguous) =>
         /\ lastResp.result.answer = RespFuse[1].item.a
         /\ lastResp.result.suggestions = RespFuseQs
    /\ (FuzzyAccepted /\ FuzzyAmbiguous) =>
         /\ lastResp.result.answer = Null
         /\ lastResp.result.suggestions = RespFuseQs
    /\ ~(FuzzyAccepted /\ ~FuzzyAmbiguous) => lastResp.result.answer = Null

\* two candidates within the threshold score the same: no answer, both
\* suggested
C16_Witness ==
  /\ Matched
  /\ BelowWeak
  /\ FuzzyAccepted
  /\ FuzzyAmbiguous
  /\ lastResp.result.answer = Null
  /\ Len(lastResp.result.suggestions) = 2

\* C17: in every state, so after every load or reload, failed or not, and
\* whenever a request reads the indexes, the relevance index holds one
\* document per corpus entry, and document i is built from the normalized
\* question of entry i.
C17_IndexMatchesCorpus ==
  /\ Len(tfidfDocs) = Len(faqs)
  /\ \A i \in 1..Len(faqs) :
       tfidfDocs[i] = BuildDocument(preprocess(faqs[i].q))

\* a reload has just replaced a one-entry corpus by a larger one while a
\* request was suspended
C17_Witness ==
  /\ lastReload.fresh
  /\ ~lastReload.failed
  /\ Len(lastReload.before.docs) = 1
  /\ Len(tfidfDocs) > 1
  /\ Len(calls) > 0

\* C18: with an empty corpus every non-blank string question is answered
\* with status 200 and classified NoAnswer: there are no relevance scores and
\* no fuzzy candidates, the result has no answer and no suggestions, and
\* failCount is one more than before the call (0 when that reaches
\* FAIL_LIMIT).
C18_EmptyCorpusNoAnswer ==
  (Answered /\ lastResp.q.kind = "string" /\ ~RespBlank /\ faqs = <<>>) =>
    /\ lastResp.status = 200
    /\ RespScore = <<>>
    /\ RespFuse = <<>>
    /\ IsNoAnswer(lastResp.result)
    /\ lastResp.result.answer = Null
    /\ lastResp.result.suggestions = <<>>
    /\ failCount = (lastResp.failBefore + 1) % FAIL_LIMIT

\* a question with a synonym lookup answered on the empty corpus
C18_Witness ==
  /\ Matched
  /\ faqs = <<>>
  /\ tfidfDocs = <<>>
  /\ lastResp.expanded # <<>>
  /\ lastResp.failBefore = 1
  /\ failCount = 2
  /\ lastResp.answer = Null

\* C19: in every state between handler steps, whatever requests are
\* suspended and whatever reloads have run, failCount is at least 0 and
\* less than FAIL_LIMIT.
C19_FailCountInRange == failCount \in 0..(FAIL_LIMIT - 1)

\* a NoAnswer response has just brought the counter to its largest value,
\* FAIL_LIMIT - 1, while another request is suspended
C19_Witness ==
  /\ Responded
  /\ IsNoAnswer(lastResp.result)
  /\ lastResp.failBefore = FAIL_LIMIT - 2
  /\ failCount = FAIL_LIMIT - 1
  /\ Len(calls) > 0

\* C20: when findAnswers throws, the response carries no answer and no
\* suggestions, and failCount is what it was before the call: the call
\* neither counts toward the escalation nor resets the counter.
C20_ThrowKeepsFailCount ==
  lastResp.status = 500 =>
    /\ lastResp.answer = Null
    /\ lastResp.suggestions = <<>>
    /\ ~lastResp.escalated
    /\ failCount = lastResp.failBefore

\* findAnswers threw on a question that is no string when one more NoAnswer
\* would have escalated
C20_Witness ==
  /\ lastResp.status = 500
  /\ lastResp.q.kind = "number"
  /\ lastResp.failBefore = FAIL_LIMIT - 1
  /\ failCount = FAIL_LIMIT - 1


====
